---- MODULE Spec2Model ----
(***************************************************************************)
(* State-machine model of wdk-wallet-solana: the signing wallet account    *)
(* (src/src/wallet-account-solana.js) over a seed signer                   *)
(* (src/src/signers/seed-signer-solana.js), the seed signer that derives    *)
(* its key at construction (src/src/signers/seed-signer-solana.ts), or a   *)
(* Ledger signer (src/src/signers/ledger-signer-solana.js).                *)
(*                                                                         *)
(* Every async function is cut at its awaits: one action runs the code     *)
(* from one await to the next (JavaScript runs to completion in between),  *)
(* and the position of every pending call is kept in call[c].pc, so that   *)
(* calls interleave exactly where the event loop lets them.                *)
(*                                                                         *)
(* Six specifications share the variables.  Spec and LiveSpec run one      *)
(* account over one signer.  DeviceSpec runs concurrent sign calls on one  *)
(* hardware signer.  FamilySpec runs hardware signers derived from         *)
(* one another on one device handle.  TreeSpec runs seed signers made by   *)
(* the constructor and by derive, each held by a caller, over the root     *)
(* nodes they share.  PureSpec runs one constructor, getter, verify,       *)
(* toReadOnlyAccount or interface-member call on one input and records     *)
(* what it returned.                                                       *)
(***************************************************************************)
EXTENDS Integers, FiniteSets, Sequences, TLC

\* ---------------------------------------------------------------- bounds
NumBackground == 1   \* signer calls pending beside the observed call
MaxConnects == 2     \* key derivations / device discoveries in one run
MaxFee == 1          \* fees range over 0..MaxFee
MaxCeiling == 1      \* configured transferMaxFee ranges over 0..MaxCeiling
MaxHolders == 3      \* signers in one family: roots and their descendants

\* Caller 0 makes the call whose outcome is observed: any method of the
\* account or of the signer.  The others stand for every other pending call:
\* calls touch shared state only through the signer's _connect and dispose,
\* so each of them is a getAddress on the signer.
Observed == 0
Callers == 0..NumBackground
BufIds == 1..MaxConnects
Fees == 0..MaxFee

\* ------------------------------------------------------------ JS values
Undefined == "undefined"
NoBuf == 0           \* an undefined Uint8Array reference
NoFee == -1          \* an undefined fee / transferMaxFee
OwnAddr == "A1"      \* the address of the signer's key at its path
OtherAddr == "A2"    \* any other address
DeviceErrors == {"TransportError", "EmptyError"}

\* Paths are sequences of segments: "m/44'/501'/0'/0'" is Prefix \o <<"0'", "0'">>,
\* the empty string is the empty sequence, and so is an undefined _path.
Prefix == <<"m", "44'", "501'">>
NoPath == <<>>
AccountPath == Prefix \o <<"0'", "0'">>

VARIABLES
    signer,     \* the fields of the signer instance the account wraps
    heap,       \* contents of the Uint8Array buffers made by _connect
    kp,         \* privateKey reference of a keyPair value a caller holds
    connects,   \* number of key derivations / device discoveries started
    cfg,        \* the account's configuration and RPC collaborator
    hist,       \* history: dispose calls, device disconnects, RPC teardown
    call,       \* the pending calls, one record per caller
    family      \* signers derived from one another and what they share
                \* (the device, or the root nodes); in PureSpec the one
                \* call made and its outcome

vars == <<signer, heap, kp, connects, cfg, hist, call, family>>

\* ------------------------------------------------------------- messages
\* A transaction message as sendTransaction sees it: whether .instructions
\* is an array, its lifetimeConstraint, its feePayer and the feePayer's form.
NoMsg == [instr |-> FALSE, lifetime |-> "none", payer |-> "none", form |-> "none"]

Payers ==
    {[payer |-> "none", form |-> "none"]} \cup
    {[payer |-> a, form |-> f] : a \in {OwnAddr, OtherAddr}, f \in {"string", "object"}}

\* Every message-shaped input: a structured message (its instructions are an
\* array), or another object, whose feePayer is never looked into.
MsgInputs ==
    {[instr |-> TRUE, lifetime |-> l, payer |-> p.payer, form |-> p.form] :
        l \in {"none", "declared"}, p \in Payers} \cup
    {[instr |-> FALSE, lifetime |-> l, payer |-> a, form |-> "none"] :
        l \in {"none", "declared"}, a \in {"none", OwnAddr, OtherAddr}}

\* ---------------------------------------------------------------- calls
IdleCall ==
    [op |-> "idle", sop |-> "none", pc |-> "idle", declared |-> NoMsg,
     msg |-> NoMsg, fee |-> NoFee, tfee |-> NoFee, signed |-> FALSE,
     sent |-> FALSE, fetched |-> 0, late |-> FALSE, ready |-> FALSE,
     conn |-> FALSE, result |-> "none", ret |-> Undefined, wire |-> "none"]

\* The world one call acts on: the shared state and the call's own record.
World(c) ==
    [s |-> signer, heap |-> heap, connects |-> connects, hist |-> hist, r |-> call[c]]

\* A call that ends: rejected with error e, or resolved with value v.
Fail(w, e) == [w EXCEPT !.r.pc = "done", !.r.result = e]
Return(w, v) == [w EXCEPT !.r.pc = "done", !.r.result = "ok", !.r.ret = v]

\* A call as it starts: late when a dispose() has run to completion, ready
\* when the signer holds its key pair / device signer at that moment.
Begin(c, op, sop) ==
    [World(c) EXCEPT !.r = [IdleCall EXCEPT !.op = op, !.sop = sop, !.pc = "run",
                                            !.late = hist.disposed,
                                            !.ready = signer.account # Undefined]]

\* What signTransaction returns: the seed signers end with Buffer.from(...),
\* the hardware signer with Uint8Array.from(...).
SignedForm(s) == IF s.kind = "ledger" THEN "Uint8Array" ELSE "Buffer"

\* signedTransaction.toString('base64'): a Buffer gives the base64 text of
\* its bytes; a plain Uint8Array has Array's toString, which ignores its
\* argument and joins the bytes in decimal with commas.
ToStringBase64(form) == IF form = "Buffer" THEN "base64" ELSE "decimal list"

\* What the caller of a signer method does with its result: a direct caller
\* just gets it; sendTransaction goes on to broadcast the signed bytes.
SendAfterSign(w) ==
    [w EXCEPT !.r.sent = TRUE, !.r.wire = ToStringBase64(SignedForm(w.s)),
              !.r.pc = "sSend"]

AfterSigner(w, v) ==
    IF w.r.op \in {"sendTransaction", "transfer"} THEN SendAfterSign(w) ELSE Return(w, v)

\* ========================================================= seed signer ==
\* Mutant of SeedSigner: a signer that is active as soon as it is built.
SeedSignerActive ==
    [kind |-> "seed", root |-> "R", account |-> "K", address |-> OwnAddr,
     path |-> AccountPath, isActive |-> TRUE, rawPublicKey |-> Undefined,
     rawPrivateKey |-> NoBuf, sessionId |-> 0, dmk |-> Undefined]

SeedSigner ==
    [kind |-> "seed", root |-> "R", account |-> Undefined, address |-> Undefined,
     path |-> AccountPath, isActive |-> FALSE, rawPublicKey |-> Undefined,
     rawPrivateKey |-> NoBuf, sessionId |-> 0, dmk |-> Undefined]

\* const [, relPath] = this._path.split(BIP_44_SOL_DERIVATION_PATH_PREFIX)
RelPathOf(path) == SubSeq(path, Len(Prefix) + 1, Len(path))

\* _connect up to its first await: split the path, check the root, derive the
\* private key from the root, and start building the key pair.
SeedConnectStart(w) ==
    IF w.s.path = NoPath THEN Fail(w, "TypeError")
    ELSE IF RelPathOf(w.s.path) = <<>> THEN Fail(w, "RootSigner")
    ELSE IF w.s.root = Undefined THEN Fail(w, "NoRoot")
    ELSE [w EXCEPT !.connects = @ + 1, !.r.conn = TRUE, !.r.pc = "cKeyPair"]

\* The body of getAddress / sign / verify / signTransaction after the guard.
SeedBody(w) ==
    CASE w.r.sop = "getAddress" -> AfterSigner(w, w.s.address)
      [] w.r.sop = "sign" ->
            IF w.s.account = Undefined THEN Fail(w, "TypeError")
            ELSE [w EXCEPT !.r.pc = "signBytes"]
      [] w.r.sop = "verify" ->
            IF w.s.account = Undefined THEN Fail(w, "TypeError")
            ELSE [w EXCEPT !.r.pc = "verifySig"]
      [] OTHER ->
            IF w.s.account = Undefined THEN Fail(w, "TypeError")
            ELSE [w EXCEPT !.r.pc = "signTx"]

\* if (!this._account) await this._connect()
SeedGuard(w) == IF w.s.account = Undefined THEN SeedConnectStart(w) ELSE SeedBody(w)

\* createKeyPairSignerFromPrivateKeyBytes resolved: the signer is marked
\* active before the raw keys are stored.
SeedKeyPairReady(w) ==
    [w EXCEPT !.s.account = "K", !.s.address = OwnAddr, !.s.isActive = TRUE,
              !.r.pc = "cExport"]

\* new Uint8Array(...): the next buffer not yet handed out.
NewBuf(h) == CHOOSE b \in BufIds : h[b] = "free" /\ \A a \in BufIds : a < b => h[a] # "free"

\* crypto.subtle.exportKey resolved: store the raw keys in fresh buffers.
SeedExported(w) ==
    [w EXCEPT !.s.rawPublicKey = "pub", !.s.rawPrivateKey = NewBuf(w.heap),
              !.heap[NewBuf(w.heap)] = "secret", !.r.pc = "cDone"]

\* sodium_memzero(this._rawPrivateKey); the references it clears.
SeedDispose(w) ==
    [w EXCEPT !.heap = IF w.s.rawPrivateKey = NoBuf THEN @
                       ELSE [@ EXCEPT ![w.s.rawPrivateKey] = "zero"],
              !.s.root = Undefined, !.s.account = Undefined,
              !.s.address = Undefined, !.s.path = NoPath,
              !.s.isActive = FALSE, !.hist.disposed = TRUE]

\* ============================== seed signer deriving at construction ==
\* seed-signer-solana.ts: the constructor calls _initAccount, which is the
\* same derivation as _connect; the methods never derive.
EagerSeedSigner == [SeedSigner EXCEPT !.kind = "eager"]

\* The _initAccount the constructor has started, pending at its first await.
InitCall == [IdleCall EXCEPT !.op = "init", !.pc = "cKeyPair", !.conn = TRUE]

\* sign / verify / signTransaction; address retrieval is the address getter,
\* which returns whatever _address holds.
EagerBody(w) ==
    CASE w.r.sop = "getAddress" -> AfterSigner(w, w.s.address)
      [] w.r.sop = "sign" ->
            IF w.s.account = Undefined THEN Fail(w, "Disposed")
            ELSE [w EXCEPT !.r.pc = "signBytes"]
      [] w.r.sop = "verify" ->
            IF w.s.account = Undefined THEN Fail(w, "TypeError")
            ELSE [w EXCEPT !.r.pc = "verifySig"]
      [] OTHER ->
            IF w.s.account = Undefined THEN Fail(w, "RootSigner")
            ELSE [w EXCEPT !.r.pc = "signTx"]

\* ======================================================= ledger signer ==
LedgerSigner ==
    [kind |-> "ledger", root |-> Undefined, account |-> Undefined,
     address |-> Undefined, path |-> AccountPath, isActive |-> FALSE,
     rawPublicKey |-> Undefined, rawPrivateKey |-> NoBuf, sessionId |-> 0,
     dmk |-> "DMK"]

\* _connect up to its first await: this._dmk.startDiscovering({}).
LedgerConnectStart(w) ==
    IF w.s.dmk = Undefined THEN Fail(w, "TypeError")
    ELSE [w EXCEPT !.connects = @ + 1, !.r.conn = TRUE, !.r.pc = "lDiscover"]

LedgerBody(w) ==
    CASE w.r.sop = "getAddress" -> AfterSigner(w, w.s.address)
      [] w.r.sop = "sign" ->
            IF w.s.account = Undefined THEN Fail(w, "TypeError")
            ELSE [w EXCEPT !.r.pc = "devSign"]
      [] OTHER ->
            IF w.s.account = Undefined THEN Fail(w, "TypeError")
            ELSE [w EXCEPT !.r.pc = "devSignTx"]

\* Mutant of LedgerGuard: connect on every call, connected or not.
LedgerGuardAlways(w) ==
    IF w.s.dmk = Undefined THEN LedgerBody(w) ELSE LedgerConnectStart(w)

LedgerGuard(w) == IF w.s.account = Undefined THEN LedgerConnectStart(w) ELSE LedgerBody(w)

\* verify never connects: without an address it answers false.
LedgerVerify(w) ==
    IF w.s.address = Undefined THEN Return(w, "false") ELSE [w EXCEPT !.r.pc = "verifySig"]

\* A device was found: this._dmk.connect({device, ...}).
LedgerDiscovered(w) ==
    IF w.s.dmk = Undefined THEN Fail(w, "TypeError") ELSE [w EXCEPT !.r.pc = "lConnect"]

\* What SignerSolanaBuilder makes of a handle that dispose() has cleared.
BuilderOutcomes(s) == IF s.dmk = Undefined THEN {"ok", "throw"} ELSE {"ok"}

\* The session is open: store it, build the device signer, ask for the address.
LedgerConnected(w, built) ==
    LET sid == w.hist.opened + 1
        opened == [w EXCEPT !.s.sessionId = sid, !.hist.opened = sid,
                            !.hist.sessions = @ \cup {sid}]
    IN  IF built = "ok" THEN [opened EXCEPT !.s.account = "D", !.r.pc = "lAddress"]
        ELSE Fail(opened, "TypeError")

\* The device reported the address.
LedgerAddress(w) ==
    [w EXCEPT !.s.address = OwnAddr, !.s.isActive = TRUE, !.r.pc = "cDone"]

\* The device signed the transaction: attach the signature under _address.
LedgerSignedTx(w) ==
    IF w.s.address = Undefined THEN Fail(w, "InvalidAddress") ELSE AfterSigner(w, "signed")

LedgerDispose(w) ==
    [w EXCEPT !.hist.sessions = IF w.s.account = Undefined THEN @ ELSE @ \ {w.s.sessionId},
              !.s.account = Undefined, !.s.dmk = Undefined, !.s.sessionId = 0,
              !.s.isActive = FALSE, !.hist.disposed = TRUE]

\* ---------------------------------------- derive: a family of signers
\* Paths as sequences of segments; the constructor puts the coin-type
\* prefix in front of the path it is given.
RelPaths == {<<"0'">>, <<"1'">>, <<"0'", "0'">>}

LedgerPath(path) == Prefix \o path

\* new LedgerSignerSol(path, config, {dmk}): without a handle in opts the
\* constructor builds a device-management kit of its own.
LedgerNew(path, dmk) ==
    [LedgerSigner EXCEPT !.path = LedgerPath(path),
                         !.dmk = IF dmk = Undefined THEN "DMK'" ELSE dmk]

\* derive(relPath, cfg): new LedgerSignerSol(`${this._path}/${relPath}`, ...,
\* {dmk: this._dmk})
LedgerDerive(s, relPath) == LedgerNew(s.path \o relPath, s.dmk)

\* No family: the account's own signer is all there is.
NoFamily ==
    [holders |-> <<>>, parent |-> <<>>, rel |-> <<>>, closed |-> FALSE,
     dev |-> [disposed |-> FALSE, threw |-> FALSE, opened |-> 0, sessions |-> {}]]

\* The world of one holder of the family: its fields and the shared device.
HolderWorld(h) ==
    [s |-> family.holders[h], heap |-> heap, connects |-> 0, hist |-> family.dev,
     r |-> IdleCall]

\* ------------------------------------------------- either signer variant
\* this._signer.address as the account reads it: the seed signer defines no
\* such getter; the ledger getter throws while there is no device signer.
AddressThrows(s) == s.kind = "ledger" /\ s.account = Undefined
AddressValue(s) == IF s.kind = "seed" THEN Undefined ELSE s.address

SignerGuard(w) ==
    CASE w.s.kind = "seed" -> SeedGuard(w)
      [] w.s.kind = "eager" -> EagerBody(w)
      [] OTHER -> LedgerGuard(w)

SignerBody(w) ==
    CASE w.s.kind = "seed" -> SeedBody(w)
      [] w.s.kind = "eager" -> EagerBody(w)
      [] OTHER -> LedgerBody(w)

SignerVerify(w) == IF w.s.kind = "ledger" THEN LedgerVerify(w) ELSE SignerGuard(w)

\* ====================================================== wallet account ==
\* if (!this._signer?.address) throw ...disposed; if (!this._rpc) throw ...
AccountGuard(w) ==
    IF AddressThrows(w.s) THEN "LedgerNotConnected"
    ELSE IF AddressValue(w.s) = Undefined THEN "Disposed"
    ELSE "pass"

RpcGuard == IF cfg.rpc THEN "pass" ELSE "NotConnected"

\* await this._getTransactionFee(transactionMessage)
SendFee(w) == [w EXCEPT !.r.pc = "sFee"]

\* setTransactionMessageFeePayer(this._signer.address, transactionMessage)
SetFeePayer(w) ==
    IF AddressThrows(w.s) THEN Fail(w, "LedgerNotConnected")
    ELSE SendFee([w EXCEPT !.r.msg.payer = AddressValue(w.s), !.r.msg.form = "object"])

\* Mutant of CheckFeePayer: the declared payer is overwritten, not compared.
CheckFeePayerSkipped(w) == SetFeePayer(w)

\* The declared fee payer, string or object, must be the signer's address.
CheckFeePayer(w) ==
    IF w.r.msg.payer # "none"
    THEN IF AddressThrows(w.s) THEN Fail(w, "LedgerNotConnected")
         ELSE IF w.r.msg.payer # AddressValue(w.s) THEN Fail(w, "FeePayerMismatch")
         ELSE SetFeePayer(w)
    ELSE SetFeePayer(w)

\* Mutant of BindLifetime: the blockhash is fetched whatever the message has.
BindLifetimeAlways(w) == [w EXCEPT !.r.fetched = @ + 1, !.r.pc = "sBlockhash"]

\* A message without a lifetime gets one from the latest blockhash.
BindLifetime(w) ==
    IF w.r.msg.lifetime = "none"
    THEN [w EXCEPT !.r.fetched = @ + 1, !.r.pc = "sBlockhash"]
    ELSE CheckFeePayer(w)

\* Only a message whose instructions are an array is bound at all.
BindMessage(w) == IF w.r.msg.instr THEN BindLifetime(w) ELSE SendFee(w)

\* sendTransaction up to its first await.
SendTransaction(w, shape, input) ==
    IF AccountGuard(w) # "pass" THEN Fail(w, AccountGuard(w))
    ELSE IF RpcGuard # "pass" THEN Fail(w, RpcGuard)
    ELSE IF shape = "descriptor" THEN [w EXCEPT !.r.pc = "sBuild"]
    ELSE BindMessage([w EXCEPT !.r.msg = input])

\* compileTransaction dereferences feePayer.address; what it makes of an
\* object whose instructions are no array is the library's business.
CompileOutcomes(m) ==
    IF m.payer = "none" THEN {"throw"} ELSE IF m.instr THEN {"ok"} ELSE {"ok", "throw"}

\* Mutant of SignTransaction: the ceiling is applied in sendTransaction too.
SignTransactionCapped(w) ==
    IF cfg.transferMaxFee # NoFee /\ w.r.fee >= cfg.transferMaxFee
    THEN Fail(w, "FeeCeiling")
    ELSE SignerGuard([w EXCEPT !.r.signed = TRUE, !.r.sop = "signTransaction"])

\* this._signer.signTransaction(Buffer.from(unsignedTransaction, 'base64'))
SignTransaction(w) ==
    SignerGuard([w EXCEPT !.r.signed = TRUE, !.r.sop = "signTransaction"])

\* Mutant of ExceedsCeiling: a fee equal to the ceiling is let through.
ExceedsCeilingStrict(fee, ceiling) == ceiling # NoFee /\ fee > ceiling

\* fee >= this._config.transferMaxFee, when a ceiling is configured.
ExceedsCeiling(fee, ceiling) == ceiling # NoFee /\ fee >= ceiling

\* transfer after the fee quote: the ceiling, then this.sendTransaction.
TransferSend(w) ==
    IF ExceedsCeiling(w.r.tfee, cfg.transferMaxFee) THEN Fail(w, "FeeCeiling")
    ELSE SendTransaction(w, "message", w.r.msg)

\* transfer up to its first await.
Transfer(w) ==
    IF AccountGuard(w) # "pass" THEN Fail(w, AccountGuard(w))
    ELSE IF RpcGuard # "pass" THEN Fail(w, RpcGuard)
    ELSE [w EXCEPT !.r.pc = "tBuild"]

\* The message the builders of the read-only account hand back.
BuiltMessage == [instr |-> TRUE, lifetime |-> "none", payer |-> "none", form |-> "none"]

\* sign: the guard, then this._signer.sign(message).
AccountSign(w) ==
    IF AccountGuard(w) # "pass" THEN Fail(w, AccountGuard(w)) ELSE SignerGuard(w)

\* getAddress: return this._signer.address
AccountGetAddress(w) ==
    IF AddressThrows(w.s) THEN Fail(w, "LedgerNotConnected")
    ELSE Return(w, AddressValue(w.s))

\* dispose: this._signer.dispose()
Dispose(w) == IF w.s.kind = "ledger" THEN LedgerDispose(w) ELSE SeedDispose(w)

\* Whether dispose() throws at its first statement and so changes nothing:
\* sodium_memzero(undefined) throws (it fills its argument), and
\* this._dmk.disconnect(...) throws when a device signer is held while the
\* handle is already cleared.
DisposeThrows(s) ==
    IF s.kind = "ledger" THEN s.account # Undefined /\ s.dmk = Undefined
    ELSE s.rawPrivateKey = NoBuf

\* ============================================================ actions ==
Init ==
    /\ signer \in {SeedSigner, EagerSeedSigner, LedgerSigner}
    /\ heap = [b \in BufIds |-> "free"]
    /\ kp = NoBuf
    /\ connects = (IF signer.kind = "eager" THEN 1 ELSE 0)
    /\ cfg \in [rpc : BOOLEAN, transferMaxFee : {NoFee} \cup (0..MaxCeiling)]
    /\ cfg.rpc \/ cfg.transferMaxFee = NoFee
    /\ hist = [disposed |-> FALSE, threw |-> FALSE, opened |-> 0, sessions |-> {}]
    /\ call = [c \in Callers |->
                  IF signer.kind = "eager" /\ c = Observed + 1 THEN InitCall ELSE IdleCall]
    /\ family = NoFamily

\* The step of call c that leads to world w.
Apply(c, w) ==
    /\ w.connects <= MaxConnects
    /\ signer' = w.s
    /\ heap' = w.heap
    /\ connects' = w.connects
    /\ hist' = w.hist
    /\ call' = [call EXCEPT ![c] = IF c # Observed /\ w.r.pc \in {"cDone", "done"}
                                     THEN IdleCall ELSE w.r]
    /\ UNCHANGED <<kp, cfg, family>>

At(c, pcs) == call[c].pc \in pcs

\* ---- calls on the account
CallSendTransaction(c) ==
    /\ c = Observed
    /\ At(c, {"idle"})
    /\ \/ Apply(c, SendTransaction(Begin(c, "sendTransaction", "none"), "descriptor", NoMsg))
       \/ \E m \in MsgInputs :
            Apply(c, SendTransaction(
                [Begin(c, "sendTransaction", "none") EXCEPT !.r.declared = m], "message", m))

CallTransfer(c) ==
    /\ c = Observed
    /\ At(c, {"idle"})
    /\ Apply(c, Transfer(Begin(c, "transfer", "none")))

CallSign(c) ==
    /\ c = Observed
    /\ At(c, {"idle"})
    /\ Apply(c, AccountSign(Begin(c, "sign", "sign")))

CallVerify(c) ==
    /\ c = Observed
    /\ At(c, {"idle"})
    /\ Apply(c, SignerVerify(Begin(c, "verify", "verify")))

CallGetAddress(c) ==
    /\ c = Observed
    /\ At(c, {"idle"})
    /\ Apply(c, AccountGetAddress(Begin(c, "getAddress", "none")))

\* ---- calls on the signer itself, which the account's creator still holds
CallSigner(c) ==
    /\ At(c, {"idle"})
    /\ \E sop \in {"getAddress", "sign", "signTransaction", "verify"} :
         /\ c # Observed => sop = "getAddress"
         /\ Apply(c, IF sop = "verify" THEN SignerVerify(Begin(c, "signer", sop))
                     ELSE SignerGuard(Begin(c, "signer", sop)))

\* account.dispose() / signer.dispose(): synchronous, so no call record.
CallDispose ==
    LET w == Dispose(World(Observed))
        ok == ~DisposeThrows(signer)
    IN  /\ signer' = IF ok THEN w.s ELSE signer
        /\ heap' = IF ok THEN w.heap ELSE heap
        /\ hist' = IF ok THEN w.hist ELSE [hist EXCEPT !.threw = TRUE]
        /\ UNCHANGED <<kp, connects, cfg, call, family>>

\* const { privateKey } = signer.keyPair
ReadKeyPair ==
    /\ signer.rawPrivateKey # kp
    /\ kp' = signer.rawPrivateKey
    /\ UNCHANGED <<signer, heap, connects, cfg, hist, call, family>>

\* ---- the awaits of _connect
SeedConnectKeyPair(c) == At(c, {"cKeyPair"}) /\ Apply(c, SeedKeyPairReady(World(c)))

SeedConnectExport(c) == At(c, {"cExport"}) /\ Apply(c, SeedExported(World(c)))

LedgerDeviceFound(c) == At(c, {"lDiscover"}) /\ Apply(c, LedgerDiscovered(World(c)))

LedgerSessionOpen(c) ==
    /\ At(c, {"lConnect"})
    /\ \E b \in BuilderOutcomes(signer) : Apply(c, LedgerConnected(World(c), b))

LedgerAddressReported(c) == At(c, {"lAddress"}) /\ Apply(c, LedgerAddress(World(c)))

\* await this._connect() returns: the method goes on with its body.
ConnectReturn(c) == At(c, {"cDone"}) /\ Apply(c, SignerBody(World(c)))

\* ---- the awaits of the signing methods
SignerResolved(c) ==
    /\ At(c, {"signBytes", "verifySig", "signTx", "devSign"})
    /\ Apply(c, AfterSigner(World(c), "signed"))

LedgerTxSigned(c) == At(c, {"devSignTx"}) /\ Apply(c, LedgerSignedTx(World(c)))

\* Discovery, connection or a device action fails: the transport rejects, or
\* the action ends without a Completed event and firstValueFrom rejects
\* with its EmptyError.  Nothing catches either.
DeviceFail(c) ==
    /\ At(c, {"lDiscover", "lConnect", "lAddress", "devSign", "devSignTx"})
    /\ \E e \in DeviceErrors : Apply(c, Fail(World(c), e))

\* ---- the awaits of sendTransaction and transfer
SendBuilt(c) ==
    /\ At(c, {"sBuild"})
    /\ Apply(c, BindMessage([World(c) EXCEPT !.r.msg = BuiltMessage,
                                              !.r.declared = BuiltMessage]))

SendBlockhash(c) ==
    /\ At(c, {"sBlockhash"})
    /\ Apply(c, CheckFeePayer([World(c) EXCEPT !.r.msg.lifetime = "rpc"]))

SendFeeQuoted(c) ==
    /\ At(c, {"sFee"})
    /\ \E f \in Fees, o \in CompileOutcomes(call[c].msg) :
         LET w == [World(c) EXCEPT !.r.fee = f]
         IN  Apply(c, IF o = "ok" THEN SignTransaction(w) ELSE Fail(w, "CompileError"))

SendBroadcast(c) == At(c, {"sSend"}) /\ Apply(c, Return(World(c), "hash"))

TransferBuilt(c) ==
    /\ At(c, {"tBuild"})
    /\ Apply(c, [World(c) EXCEPT !.r.msg = BuiltMessage, !.r.declared = BuiltMessage,
                                  !.r.pc = "tFee"])

TransferFeeQuoted(c) ==
    /\ At(c, {"tFee"})
    /\ \E f \in Fees : Apply(c, TransferSend([World(c) EXCEPT !.r.tfee = f]))

\* A builder rejects its arguments, or the RPC collaborator rejects a request.
RpcFail(c) ==
    /\ At(c, {"sBuild", "tBuild", "sBlockhash", "sFee", "tFee", "sSend"})
    /\ Apply(c, Fail(World(c), "RpcError"))

\* The caller has seen the outcome; the slot is free for the next call.
Finish(c) ==
    /\ At(c, {"done"})
    /\ call' = [call EXCEPT ![c] = IdleCall]
    /\ UNCHANGED <<signer, heap, kp, connects, cfg, hist, family>>

Next ==
    \/ \E c \in Callers :
          \/ CallSendTransaction(c)
          \/ CallTransfer(c)
          \/ CallSign(c)
          \/ CallVerify(c)
          \/ CallGetAddress(c)
          \/ CallSigner(c)
          \/ SeedConnectKeyPair(c)
          \/ SeedConnectExport(c)
          \/ LedgerDeviceFound(c)
          \/ LedgerSessionOpen(c)
          \/ LedgerAddressReported(c)
          \/ ConnectReturn(c)
          \/ SignerResolved(c)
          \/ LedgerTxSigned(c)
          \/ DeviceFail(c)
          \/ SendBuilt(c)
          \/ SendBlockhash(c)
          \/ SendFeeQuoted(c)
          \/ SendBroadcast(c)
          \/ TransferBuilt(c)
          \/ TransferFeeQuoted(c)
          \/ RpcFail(c)
          \/ Finish(c)
    \/ CallDispose
    \/ ReadKeyPair

Spec == Init /\ [][Next]_vars

\* ------------------------------------- a family of hardware signers
\* A root signer built on a handle, and nothing else going on.
FamilyInit ==
    /\ signer = LedgerSigner
    /\ heap = [b \in BufIds |-> "free"]
    /\ kp = NoBuf
    /\ connects = 0
    /\ cfg = [rpc |-> FALSE, transferMaxFee |-> NoFee]
    /\ hist = NoFamily.dev
    /\ call = [c \in Callers |-> IdleCall]
    /\ \E p \in RelPaths :
         family = [NoFamily EXCEPT !.holders = <<LedgerNew(p, "DMK")>>,
                                   !.parent = <<0>>, !.rel = <<p>>]

Holders == DOMAIN family.holders

\* holder.derive(relPath)
FamilyDerive ==
    /\ Len(family.holders) < MaxHolders
    /\ \E h \in Holders, p \in RelPaths :
         family' = [family EXCEPT
                       !.holders = Append(@, LedgerDerive(family.holders[h], p)),
                       !.parent = Append(@, h), !.rel = Append(@, p)]
    /\ UNCHANGED <<signer, heap, kp, connects, cfg, hist, call>>

\* await holder.getAddress() on a holder that is not connected
FamilyGetAddress ==
    /\ \E h \in Holders :
         LET w == LedgerGuard([HolderWorld(h) EXCEPT !.r.sop = "getAddress"])
         IN  /\ family.holders[h].account = Undefined
             /\ w.r.pc = "lDiscover"
             /\ family' = [family EXCEPT
                   !.holders[h] = LedgerAddress(LedgerConnected(LedgerDiscovered(w), "ok")).s,
                   !.dev = LedgerAddress(LedgerConnected(LedgerDiscovered(w), "ok")).hist]
    /\ UNCHANGED <<signer, heap, kp, connects, cfg, hist, call>>

\* holder.dispose()
FamilyDispose ==
    /\ \E h \in Holders :
         /\ family.holders[h].dmk # Undefined
         /\ family' = [family EXCEPT !.holders[h] = LedgerDispose(HolderWorld(h)).s,
                                      !.dev = LedgerDispose(HolderWorld(h)).hist]
    /\ UNCHANGED <<signer, heap, kp, connects, cfg, hist, call>>

FamilyNext == FamilyDerive \/ FamilyGetAddress \/ FamilyDispose

FamilySpec == FamilyInit /\ [][FamilyNext]_vars

\* ============================================================= claims ==
obs == call[Observed]

Pipeline == {"sendTransaction", "transfer"}
Signing == {"sign", "sendTransaction", "transfer"}

\* The call has left the binding of lifetime and fee payer behind it.
Bound(r) == r.pc \in {"sFee", "sSend"} \/ r.signed

C2_SignedMessageIsBound ==
    (obs.op \in Pipeline /\ obs.signed)
    => (obs.msg.lifetime # "none" /\ obs.msg.payer = OwnAddr)

\* C3: a structured message that declares a fee payer other than the signer's
\* address never reaches the signer or the RPC broadcast and never succeeds;
\* once its lifetime is bound the call has ended, with the fee-payer-mismatch
\* error whenever the signer was not disposed meanwhile.  A structured message
\* that declares no fee payer carries the signer's address once bound, as
\* long as the signer has not been disposed.
C3_FeePayerChecked ==
    (obs.op = "sendTransaction" /\ obs.declared.instr)
    => /\ obs.declared.payer = OtherAddr
            => /\ ~obs.signed /\ ~obs.sent /\ obs.result # "ok"
               /\ obs.msg.lifetime # "none"
                    => /\ obs.pc = "done"
                       /\ obs.result \in {"FeePayerMismatch", "LedgerNotConnected"}
                       /\ ~hist.disposed => obs.result = "FeePayerMismatch"
       /\ (obs.declared.payer = "none" /\ Bound(obs) /\ ~hist.disposed)
            => obs.msg.payer = OwnAddr

\* C3 witness: a mismatch found after the blockhash was fetched, the payer
\* given as an object.
C3_Witness ==
    /\ obs.op = "sendTransaction" /\ obs.declared.instr
    /\ obs.declared.payer = OtherAddr /\ obs.declared.form = "object"
    /\ obs.result = "FeePayerMismatch" /\ obs.fetched = 1

\* C4: a structured message that declares a lifetime keeps it and no
\* blockhash is fetched for it; one that declares none has the blockhash
\* fetched once, and once bound its lifetime is the one derived from it.
C4_LifetimeKept ==
    (obs.op = "sendTransaction" /\ obs.declared.instr)
    => /\ obs.declared.lifetime = "declared"
            => obs.fetched = 0 /\ obs.msg.lifetime \in {"none", "declared"}
                 /\ (Bound(obs) => obs.msg.lifetime = "declared")
       /\ obs.declared.lifetime = "none"
            => obs.fetched <= 1 /\ obs.msg.lifetime \in {"none", "rpc"}
                 /\ (obs.msg.lifetime = "rpc" => obs.fetched = 1)
                 /\ (Bound(obs) => obs.fetched = 1 /\ obs.msg.lifetime = "rpc")

\* C4 witness: a message with its own lifetime was signed and broadcast.
C4_Witness ==
    /\ obs.op = "sendTransaction" /\ obs.declared.instr
    /\ obs.declared.lifetime = "declared" /\ obs.result = "ok" /\ obs.sent

\* C5 (as claimed): sendTransaction and transfer on a disposed signer end
\* with the Disposed error, without an RPC collaborator with the NotConnected
\* error, in both cases before anything is built, fetched, signed or sent.
C5_GuardsFailFirst ==
    (obs.op \in Pipeline /\ (obs.late \/ ~cfg.rpc))
    => /\ obs.pc = "done"
       /\ obs.result = IF obs.late THEN "Disposed" ELSE "NotConnected"
       /\ obs.msg = NoMsg /\ obs.fetched = 0 /\ ~obs.signed /\ ~obs.sent

\* C6 (as claimed): as long as dispose was never called, sign,
\* sendTransaction and transfer do not fail with the Disposed error.
C6_ReadyNeverDisposed ==
    (~hist.disposed /\ ~hist.threw /\ obs.op \in Signing) => obs.result # "Disposed"

\* C7 (as claimed): once dispose has run, the signer is never active again,
\* and every later sign, sendTransaction or transfer fails at once without
\* signing or broadcasting.
C7_DisposedIsAbsorbing ==
    hist.disposed
    => /\ ~signer.isActive
       /\ (obs.late /\ obs.op \in Signing)
            => obs.pc = "done" /\ obs.result # "ok" /\ ~obs.signed /\ ~obs.sent

\* C8 (as claimed): after dispose of a seed signer every private-key buffer
\* it made is zero, also the one a caller reads through an earlier keyPair,
\* and the signer holds no key pair, raw key or root any more.
C8_DisposeErasesKeys ==
    (signer.kind = "seed" /\ hist.disposed)
    => /\ \A b \in BufIds : heap[b] # "secret"
       /\ signer.account = Undefined /\ signer.root = Undefined
       /\ signer.rawPrivateKey = NoBuf /\ signer.rawPublicKey = Undefined

\* C9 (as claimed): on a disposed seed signer every later sign,
\* signTransaction, getAddress or verify fails with the Disposed error, and
\* the signer is not active and holds no key again.
C9_DisposedSignerRejects ==
    (signer.kind = "seed" /\ hist.disposed)
    => /\ ~signer.isActive /\ signer.account = Undefined
       /\ (obs.late /\ obs.op = "signer" /\ obs.pc = "done") => obs.result = "Disposed"

\* C10 (as claimed): the calls on one seed signer start its key derivation
\* at most once.
C10_SingleFlight == signer.kind = "seed" => connects <= 1

\* ---------------------------------------------------------- C11 .. C20
Lazy == {"seed", "ledger"}
Seeds == {"seed", "eager"}
KeyOps == {"getAddress", "sign", "signTransaction"}
LedgerConnectPcs == {"lDiscover", "lConnect", "lAddress"}
Connecting == {c \in Callers : call[c].pc \in LedgerConnectPcs}

\* C11 (as claimed): on one hardware signer at most one connect is in flight
\* at any time, and it never holds two open sessions.
C11_LedgerSingleFlight ==
    signer.kind = "ledger" => Cardinality(Connecting) <= 1 /\ Cardinality(hist.sessions) <= 1

\* A call on the signer begins in this step.
Starts(c) == call[c].pc = "idle" /\ call'[c].pc # "idle" /\ call'[c].op = "signer"

C12_State ==
    \A c \in Callers :
        (signer.kind = "ledger" /\ call[c].op = "signer" /\ call[c].sop \in KeyOps)
        => /\ call[c].ready => ~call[c].conn /\ call[c].pc \notin LedgerConnectPcs
           /\ (~call[c].ready /\ ~call[c].late) => call[c].conn

C12_Step ==
    \A c \in Callers :
        (signer.kind = "ledger" /\ Starts(c) /\ call'[c].sop \in KeyOps /\ call'[c].ready)
        => /\ connects' = connects /\ hist'.opened = hist.opened
           /\ signer'.sessionId = signer.sessionId /\ signer'.account = signer.account

\* C12: on the hardware signer, a getAddress, sign or signTransaction that
\* begins while no device signer is held performs the connect (unless the
\* signer was disposed before), and one that begins while the signer is
\* connected never discovers or connects and leaves the session id and the
\* device signer as they are.
C12_LazyIdempotentConnect == []C12_State /\ [][C12_Step]_vars

\* C12 witness: a sign begun on a connected signer waits for the device,
\* after the one connect another call made.
C12_Witness ==
    /\ signer.kind = "ledger" /\ obs.op = "signer" /\ obs.sop = "sign" /\ obs.ready
    /\ obs.pc = "devSign" /\ connects = 1 /\ signer.sessionId = 1

\* Connected: an open session and a device signer object are held.
Connected == signer.account # Undefined /\ signer.sessionId \in hist.sessions

\* C13 (as claimed): whenever no connect is in flight on the hardware
\* signer, isActive is true exactly when it is Connected.
C13_ActiveIffConnected ==
    (signer.kind = "ledger" /\ Connecting = {}) => (signer.isActive <=> Connected)

\* C14 (as claimed): an active seed signer holds both raw keys.
C14_ActiveHasKeys ==
    (signer.kind \in Seeds /\ signer.isActive)
    => signer.rawPrivateKey # NoBuf /\ signer.rawPublicKey # Undefined

\* Nothing has been derived, discovered or opened.
Inert ==
    /\ ~signer.isActive /\ signer.account = Undefined /\ signer.address = Undefined
    /\ signer.rawPrivateKey = NoBuf /\ signer.rawPublicKey = Undefined
    /\ signer.sessionId = 0 /\ hist.opened = 0
    /\ \A c \in Callers : ~call[c].conn

C16_State == (signer.kind \in Lazy /\ connects = 0) => Inert

\* A derivation or discovery starts only as the first step of an operation on
\* the signer, and the signer turns active only in a later step of that
\* operation's connect.
C16_Step ==
    signer.kind \in Lazy
    => /\ connects' # connects
            => \E c \in Callers :
                 /\ ~call[c].conn /\ call'[c].conn
                 /\ call'[c].pc \in {"cKeyPair", "lDiscover"}
                 /\ call'[c].sop \in KeyOps \cup {"verify"}
       /\ (~signer.isActive /\ signer'.isActive)
            => \E c \in Callers : call[c].conn /\ call[c].pc \in {"cKeyPair", "lAddress"}

C17_WaitsForDerivation ==
    (/\ signer.kind \in Seeds /\ obs.op = "signer" /\ obs.sop \in KeyOps
     /\ ~obs.ready /\ ~hist.disposed /\ ~hist.threw /\ obs.pc = "done")
    => obs.result = "ok" /\ (obs.sop = "getAddress" => obs.ret = OwnAddr)

\* C18 (as claimed): a call on the hardware signer that the device or its
\* transport fails ends with the DeviceInteractionError.
C18_DeviceErrorsWrapped ==
    (signer.kind = "ledger" /\ obs.op = "signer" /\ obs.pc = "done"
        /\ obs.result \in DeviceErrors \cup {"DeviceInteractionError"})
    => obs.result = "DeviceInteractionError"

\* The awaits of a derivation settle: createKeyPairSignerFromPrivateKeyBytes
\* and crypto.subtle.exportKey resolve once they have been started.  Whether
\* a caller ever calls anything is left open.
LiveSpec ==
    Spec /\ WF_vars(\E c \in Callers : SeedConnectKeyPair(c) \/ SeedConnectExport(c))

\* The caller has invoked something on the signer or the account.
CallerActed ==
    \/ \E c \in Callers : call[c].op \notin {"idle", "init"}
    \/ hist.disposed \/ hist.threw

\* C15 (as claimed): a child seed signer on which the caller invokes nothing
\* becomes active, with its address available.
C15_ActiveWithoutCalls ==
    signer.kind \in Seeds
    => <>((signer.isActive /\ signer.address # Undefined) \/ CallerActed)

Children == {h \in Holders : family.parent[h] # 0}
HandleUsers == {h \in Holders : family.holders[h].dmk = "DMK"}

\* C19 (as claimed): the path of a derived hardware signer is its parent's
\* path followed by the relative path, and it holds its parent's handle.
C19_DerivedPath ==
    \A h \in Children :
        /\ family.holders[h].path = family.holders[family.parent[h]].path \o family.rel[h]
        /\ family.holders[family.parent[h]].dmk # Undefined
             => family.holders[h].dmk \in {Undefined, family.holders[family.parent[h]].dmk}

\* C20 (as claimed): the handle a family shares is released exactly when
\* its last holder has been disposed, and the sessions opened on it are
\* closed by then.
C20_LastHolderReleases ==
    /\ family.closed <=> (Holders # {} /\ HandleUsers = {})
    /\ (Holders # {} /\ HandleUsers = {}) => family.dev.sessions = {}

\* A session is open under the id the signer holds.
HasSession(s) == s.sessionId \in hist.sessions

\* C21 (as claimed): every dispose() of the hardware signer ends without an
\* error, disconnects the session the signer holds exactly when there is
\* one, and leaves the signer without handle and inactive; a dispose after a
\* dispose, or on a signer that never connected, disconnects nothing and
\* changes no field (but for the handle it releases).
C21_Step ==
    (CallDispose /\ signer.kind = "ledger") =>
        /\ ~DisposeThrows(signer)
        /\ hist'.sessions = IF HasSession(signer) THEN hist.sessions \ {signer.sessionId}
                            ELSE hist.sessions
        /\ signer'.dmk = Undefined /\ ~signer'.isActive
        /\ hist.disposed => signer' = signer /\ hist'.sessions = hist.sessions
        /\ connects = 0 => signer' = [signer EXCEPT !.dmk = Undefined]
                           /\ hist'.sessions = hist.sessions

C21_DisposeIdempotent == [][C21_Step]_vars

\* ===================================== seed signers: constructor, derive ==
\* What a caller can pass as seed: null, the empty string, a mnemonic phrase
\* (P1, P2 pass the checksum, "bad" does not) or seed bytes (S1).
Null == "null"
Phrases == {"P1", "P2"}
SeedInputs == {Null, "", "bad", "S1"} \cup Phrases

\* What a caller can pass as relative path: nothing, hardened paths, a path
\* with an unhardened segment ("0'/0"), a path with a non-numeric segment.
HardSegs == {"0'", "1'"}
PathInputs == {<<>>, <<"0'", "0">>, <<"x'">>} \cup RelPaths \cup {<<"0'", "1'">>}

Truthy(seed) == seed \notin {Null, ""}
IsString(seed) == seed \in {"", "bad"} \cup Phrases

\* bip39.validateMnemonic / bip39.mnemonicToSeedSync: S1 is the seed of P1.
ValidMnemonic(seed) == seed \in Phrases
SeedBytes(seed) == CASE seed = "P1" -> "S1" [] seed = "P2" -> "S2" [] OTHER -> seed

\* assertFullHardenedPath(path): every segment is a number followed by '.
FullHardened(path) == \A i \in DOMAIN path : path[i] \in HardSegs

\* Key material: the key pair at a hardened path under a master seed.  The
\* address, the public key and the private key bytes all determine it.
NoKey == [seed |-> "none", at |-> <<>>]
ZeroKey == [seed |-> "zero", at |-> <<>>]
AddressOf(key) == [owner |-> key]
NoAddr == AddressOf(NoKey)

\* Root nodes are objects: a signer refers to one by its number, NoRoot for
\* an undefined _root.  HDKey.fromMasterSeed(seed).derive(PREFIX) makes one.
NoRoot == 0
RootNode(seed) == [seed |-> SeedBytes(seed)]
FreeNode == [seed |-> "free"]

\* The outcome of a constructor or a method: an error message, or a value.
NoSigner == [kind |-> "none"]
Threw(e) == [err |-> e, s |-> NoSigner, ret |-> "none"]

\* Mutant of SeedNew: a root is taken whatever the seed, and a seed unchecked.
SeedNewUnchecked(seed, config, opts, fresh) ==
    IF opts.root = NoRoot /\ ~Truthy(seed) THEN Threw("Seed or root is required.")
    ELSE [err |-> "none", ret |-> "none",
          s |-> [kind |-> "seed", config |-> config,
                 root |-> IF opts.root # NoRoot THEN opts.root ELSE fresh,
                 account |-> NoKey, address |-> NoAddr,
                 path |-> IF opts.path # <<>> THEN Prefix \o opts.path ELSE NoPath,
                 isRoot |-> (opts.path = <<>>), isActive |-> FALSE,
                 rawPublicKey |-> NoKey, rawPrivateKey |-> NoKey]]

\* new SeedSignerSolana(seed, config, {root, path}); fresh is where a root
\* node made from the seed would be stored.
SeedNew(seed, config, opts, fresh) ==
    IF opts.root # NoRoot /\ Truthy(seed)
    THEN Threw("Provide either a seed or a root, not both.")
    ELSE IF opts.root = NoRoot /\ ~Truthy(seed) THEN Threw("Seed or root is required.")
    ELSE IF IsString(seed) /\ ~ValidMnemonic(seed) THEN Threw("The seed phrase is invalid.")
    ELSE IF opts.path # <<>> /\ ~FullHardened(opts.path) THEN Threw("InvalidPath")
    ELSE [err |-> "none", ret |-> "none",
          s |-> [kind |-> "seed", config |-> config,
                 root |-> IF opts.root # NoRoot THEN opts.root ELSE fresh,
                 account |-> NoKey, address |-> NoAddr,
                 path |-> IF opts.path # <<>> THEN Prefix \o opts.path ELSE NoPath,
                 isRoot |-> (opts.path = <<>>), isActive |-> FALSE,
                 rawPublicKey |-> NoKey, rawPrivateKey |-> NoKey]]

\* Configurations: one optional entry is enough to tell a merge from a copy.
Configs == {[k |-> Undefined], [k |-> "child"]}
BaseConfig == [k |-> "base"]

\* {...this._config, ...entries of config whose value is not undefined}
MergeConfig(base, config) ==
    [key \in DOMAIN base |-> IF config[key] # Undefined THEN config[key] ELSE base[key]]

\* Mutant of SeedDerive: the child starts with its parent's key material.
SeedDeriveShared(s, relPath, config) ==
    LET made == SeedNew(Null, MergeConfig(s.config, config),
                        [root |-> s.root, path |-> relPath], NoRoot)
    IN  IF made.err # "none" THEN made
        ELSE [made EXCEPT !.s.account = s.account, !.s.address = s.address,
                          !.s.isActive = s.isActive,
                          !.s.rawPrivateKey = s.rawPrivateKey]

\* derive(relPath, config)
SeedDerive(s, relPath, config) ==
    SeedNew(Null, MergeConfig(s.config, config), [root |-> s.root, path |-> relPath],
            NoRoot)

\* HDKey.derive(path, forceHardened = true): every index counts as hardened.
HardenedRel(rel) == [i \in DOMAIN rel |-> IF rel[i] = "0" THEN "0'" ELSE rel[i]]

\* Mutant of DeriveKey: the key hangs on the node object, not on its seed.
DeriveKeyOfObject(nodes, root, rel) == [seed |-> ToString(root), at |-> HardenedRel(rel)]

\* this._root.derive(`m${relPath}`, true)
DeriveKey(nodes, root, rel) == [seed |-> nodes[root].seed, at |-> HardenedRel(rel)]

\* _connect with its awaits resolved and no other call on this signer
\* pending (the interleavings of one signer's calls are those of
\* SeedConnectStart, SeedKeyPairReady and SeedExported).
SeedConnect(s, nodes) ==
    IF s.path = NoPath THEN Threw("TypeError")
    ELSE IF RelPathOf(s.path) = <<>> THEN Threw("Not allowed to interact with the root node.")
    ELSE IF s.root = NoRoot THEN Threw("The root node is not provided.")
    ELSE LET key == DeriveKey(nodes, s.root, RelPathOf(s.path))
         IN  [err |-> "none", ret |-> "none",
              s |-> [s EXCEPT !.account = key, !.address = AddressOf(key),
                              !.isActive = TRUE, !.rawPublicKey = key,
                              !.rawPrivateKey = key]]

\* if (!this._account) await this._connect()
SeedReady(s, nodes) ==
    IF s.account = NoKey THEN SeedConnect(s, nodes)
    ELSE [err |-> "none", ret |-> "none", s |-> s]

\* getAddress()
SeedGetAddress(s, nodes) ==
    LET c == SeedReady(s, nodes)
    IN  IF c.err # "none" THEN c ELSE [c EXCEPT !.ret = c.s.address]

\* ---- messages and signatures as the signer converts them
\* Messages are JavaScript strings: two plain ones, a lone surrogate
\* ("\uD800") and the replacement character ("\uFFFD").
Messages == {"a", "b", "lone surrogate", "replacement"}

\* Buffer.from(message, 'utf8'): a lone surrogate is encoded as U+FFFD.
Utf8(message) ==
    CASE message = "a" -> "61"
      [] message = "b" -> "62"
      [] OTHER -> "efbfbd"

\* signBytes(privateKey, data): Ed25519 signatures depend on key and data
\* alone.  mark tells the real signature from bytes that were changed
\* ("flipped") or cut short ("cut").
SignBytes(key, data) == [key |-> key, data |-> data, mark |-> "exact"]

\* Buffer.from(bytes).toString('hex'): lower-case digits, two per byte.
\* A hex text is the bytes it stands for and how they are written.
ToHex(bytes) == [of |-> bytes, text |-> "lower"]

\* Buffer.from(signature, 'hex'): digits in either case, read up to the
\* first pair that is not hexadecimal.
FromHex(hex) == hex.of

\* Mutant of VerifySignature: only the key and the data are compared.
VerifySignatureLoose(key, signature, data) ==
    signature.key = key /\ signature.data = data

\* verifySignature(publicKey, signature, data)
VerifySignature(key, signature, data) ==
    signature.mark = "exact" /\ signature.key = key /\ signature.data = data

\* sign(message)
SeedSign(s, nodes, message) ==
    LET c == SeedReady(s, nodes)
    IN  IF c.err # "none" THEN c
        ELSE [c EXCEPT !.ret = ToHex(SignBytes(c.s.account, Utf8(message)))]

\* verify(message, signature)
SeedVerify(s, nodes, message, signature) ==
    LET c == SeedReady(s, nodes)
    IN  IF c.err # "none" THEN c
        ELSE [c EXCEPT !.ret = VerifySignature(c.s.account, FromHex(signature),
                                               Utf8(message))]

\* Mutant of SeedDisposed: dispose also wipes the root node it refers to.
SeedDisposedWiping(s, nodes) ==
    IF s.rawPrivateKey = NoKey THEN [err |-> "TypeError", s |-> s, nodes |-> nodes]
    ELSE [err |-> "none",
          s |-> [s EXCEPT !.rawPrivateKey = ZeroKey, !.root = NoRoot,
                          !.account = NoKey, !.address = NoAddr, !.path = NoPath,
                          !.isActive = FALSE],
          nodes |-> IF s.root = NoRoot THEN nodes
                    ELSE [nodes EXCEPT ![s.root] = [seed |-> "zero"]]]

\* dispose(): sodium_memzero throws on a signer that never derived its key
\* (nothing is cleared then); otherwise the key bytes are zeroed and the
\* references dropped.  The root node itself is not touched.
SeedDisposed(s, nodes) ==
    IF s.rawPrivateKey = NoKey THEN [err |-> "TypeError", s |-> s, nodes |-> nodes]
    ELSE [err |-> "none",
          s |-> [s EXCEPT !.rawPrivateKey = ZeroKey, !.root = NoRoot,
                          !.account = NoKey, !.address = NoAddr, !.path = NoPath,
                          !.isActive = FALSE],
          nodes |-> nodes]

\* ---- index
\* +segment.replace(/'/g, ''): the number a segment stands for; NaN for a
\* segment that is not a number or is not there.  NoIndex is the undefined
\* the getters return for a signer without a path.
NaN == -1
NoIndex == -2
SegmentNumber(path, i) ==
    IF i \notin DOMAIN path THEN NaN
    ELSE CASE path[i] \in {"0'", "0"} -> 0
           [] path[i] \in {"1'", "1"} -> 1
           [] path[i] = "44'" -> 44
           [] path[i] = "501'" -> 501
           [] OTHER -> NaN

\* SeedSignerSolana index: split('/').at(3), the fourth segment.
SeedIndex(s) == IF s.path = NoPath THEN NoIndex ELSE SegmentNumber(s.path, 4)

\* LedgerSignerSol index: split('/').pop(), the last segment.
LedgerIndex(s) == IF s.path = NoPath THEN NoIndex ELSE SegmentNumber(s.path, Len(s.path))

\* new LedgerSignerSol(path, config, {dmk})
LedgerConstruct(path, dmk) ==
    IF path = <<>> THEN Threw("Path is required.")
    ELSE [err |-> "none", ret |-> "none", s |-> LedgerNew(path, dmk)]

\* new WalletAccountSolana(signer, config); NoSigner is a missing signer.
\* The hardware signer has no isRoot.
AccountNew(s) ==
    IF s = NoSigner THEN Threw("A signer is required.")
    ELSE IF s.kind = "seed" /\ s.isRoot
    THEN Threw("The signer is the root signer. Call derive method to create a child signer.")
    ELSE [err |-> "none", ret |-> "none", s |-> s]

\* ============================================ a tree of seed signers ==
\* Seed signers made from seeds and from one another.  family holds the
\* signers, where each came from (0: built from a seed), the root node
\* objects, and the outcome of the last call.
MaxRoots == 2
TreeSeeds == Phrases
TreePaths == {<<>>, <<"0'">>, <<"0'", "1'">>, <<"0'", "0">>}
TreeMessages == {"a", "b"}

NoOutcome == [op |-> "none", h |-> 0, arg |-> "none", err |-> "none", ret |-> "none"]

TreeInit ==
    /\ signer = SeedSigner
    /\ heap = [b \in BufIds |-> "free"]
    /\ kp = NoBuf
    /\ connects = 0
    /\ cfg = [rpc |-> FALSE, transferMaxFee |-> NoFee]
    /\ hist = NoFamily.dev
    /\ call = [c \in Callers |-> IdleCall]
    /\ family = [holders |-> <<>>, parent |-> <<>>,
                 nodes |-> [n \in 1..MaxRoots |-> FreeNode], last |-> NoOutcome]

\* The first root node object not in use yet, NoRoot when all are.
FreshNode(nodes) ==
    IF \A n \in DOMAIN nodes : nodes[n] # FreeNode THEN NoRoot
    ELSE CHOOSE n \in DOMAIN nodes :
            nodes[n] = FreeNode /\ \A k \in DOMAIN nodes : k < n => nodes[k] # FreeNode

Outcome(op, h, arg, res) == [op |-> op, h |-> h, arg |-> arg, err |-> res.err, ret |-> res.ret]

\* The family after a constructor or derive: one more signer when it returned.
Grown(op, from, arg, made, nodes) ==
    [family EXCEPT
        !.holders = IF made.err = "none" THEN Append(@, made.s) ELSE @,
        !.parent = IF made.err = "none" THEN Append(@, from) ELSE @,
        !.nodes = nodes,
        !.last = Outcome(op, from, arg, made)]

\* new SeedSignerSolana(seed, config, {path})
TreeNew ==
    /\ Len(family.holders) < MaxHolders
    /\ FreshNode(family.nodes) # NoRoot
    /\ \E seed \in TreeSeeds, path \in TreePaths :
         LET fresh == FreshNode(family.nodes)
             made == SeedNew(seed, BaseConfig, [root |-> NoRoot, path |-> path], fresh)
         IN  family' = Grown("new", 0, path, made,
                             IF made.err = "none"
                             THEN [family.nodes EXCEPT ![fresh] = RootNode(seed)]
                             ELSE family.nodes)
    /\ UNCHANGED <<signer, heap, kp, connects, cfg, hist, call>>

\* holder.derive(relPath, config)
TreeDerive ==
    /\ Len(family.holders) < MaxHolders
    /\ \E h \in Holders, rel \in TreePaths, config \in Configs :
         family' = Grown("derive", h, rel, SeedDerive(family.holders[h], rel, config),
                         family.nodes)
    /\ UNCHANGED <<signer, heap, kp, connects, cfg, hist, call>>

\* The family after a method of holder h that ended with res.
Called(op, h, arg, res) ==
    [family EXCEPT !.holders[h] = IF res.err = "none" THEN res.s ELSE @,
                   !.last = Outcome(op, h, arg, res)]

\* await holder.getAddress()
TreeGetAddress ==
    /\ \E h \in Holders :
         family' = Called("getAddress", h, "none",
                          SeedGetAddress(family.holders[h], family.nodes))
    /\ UNCHANGED <<signer, heap, kp, connects, cfg, hist, call>>

\* await holder.sign(message)
TreeSign ==
    /\ \E h \in Holders, m \in TreeMessages :
         family' = Called("sign", h, m, SeedSign(family.holders[h], family.nodes, m))
    /\ UNCHANGED <<signer, heap, kp, connects, cfg, hist, call>>

\* holder.dispose()
TreeDispose ==
    /\ \E h \in Holders :
         LET d == SeedDisposed(family.holders[h], family.nodes)
         IN  family' = [family EXCEPT !.holders[h] = d.s, !.nodes = d.nodes,
                           !.last = [NoOutcome EXCEPT !.op = "dispose", !.h = h,
                                                      !.err = d.err]]
    /\ UNCHANGED <<signer, heap, kp, connects, cfg, hist, call>>

\* new WalletAccountSolana(holder) / new WalletAccountSolana(undefined)
TreeWrap ==
    /\ \E h \in Holders \cup {0} :
         family' = [family EXCEPT !.last =
             Outcome("account", h, "none",
                     AccountNew(IF h = 0 THEN NoSigner ELSE family.holders[h]))]
    /\ UNCHANGED <<signer, heap, kp, connects, cfg, hist, call>>

TreeNext == TreeNew \/ TreeDerive \/ TreeGetAddress \/ TreeSign \/ TreeDispose \/ TreeWrap

TreeSpec == TreeInit /\ [][TreeNext]_vars

\* The signer made last, and the signer it was derived from.
Newest == family.holders[Len(family.holders)]
NewestParent == family.holders[family.parent[Len(family.holders)]]
Derived == family.last.op = "derive" /\ family.last.err = "none"

\* C22: a derive that returns appends one signer and changes nothing else:
\* every signer there was, the parent among them, keeps all its fields, and
\* no root node changes.  The new signer refers to the root node its parent
\* refers to, has the path made of the prefix and the relative path (none
\* for an empty relative path), and its key slots are empty.
C22_Step ==
    (family'.last.op = "derive" /\ family'.last.err = "none"
        /\ Len(family'.holders) = Len(family.holders) + 1)
    => LET child == family'.holders[Len(family'.holders)]
           h == family'.parent[Len(family'.holders)]
           rel == family'.last.arg
       IN  /\ h \in Holders
           /\ \A g \in Holders : family'.holders[g] = family.holders[g]
           /\ family'.nodes = family.nodes
           /\ child.root = family.holders[h].root
           /\ child.path = (IF rel = <<>> THEN NoPath ELSE Prefix \o rel)
           /\ child.account = NoKey /\ child.address = NoAddr /\ ~child.isActive
           /\ child.rawPrivateKey = NoKey /\ child.rawPublicKey = NoKey
           /\ child.config = MergeConfig(family.holders[h].config, child.config)

C22_DeriveLeavesParent == [][C22_Step]_vars

\* A child derived from an active signer that is itself a derived child.
C22_Witness ==
    /\ Derived
    /\ family.last.h = family.parent[Len(family.holders)]
    /\ NewestParent.isActive
    /\ family.parent[family.parent[Len(family.holders)]] # 0
    /\ Newest.config # NewestParent.config

\* A derived signer that has been disposed: dispose clears its path.
DisposedChild(h) ==
    /\ family.parent[h] # 0
    /\ ~family.holders[h].isRoot
    /\ family.holders[h].path = NoPath

\* C23, in every state: a root node that a signer refers to still holds the
\* seed it was made from, the key of every connected signer is the key at
\* its path under that seed, and getAddress, sign and derive fail only for
\* reasons of the signer they are called on (it has no path, it was
\* disposed, the relative path is refused).
C23_State ==
    /\ \A h \in Holders :
         LET s == family.holders[h]
         IN  /\ s.root # NoRoot => family.nodes[s.root].seed \in {"S1", "S2"}
             /\ (s.root # NoRoot /\ s.account # NoKey)
                  => /\ s.account = [seed |-> family.nodes[s.root].seed,
                                     at |-> RelPathOf(s.path)]
                     /\ s.address = AddressOf(s.account)
    /\ (family.last.op \in {"getAddress", "sign"} /\ family.last.err # "none")
         => family.holders[family.last.h].path = NoPath
    /\ (family.last.op = "derive" /\ family.last.err # "none")
         => \/ family.holders[family.last.h].root = NoRoot
            \/ ~FullHardened(family.last.arg)

\* C23, on every step: a dispose changes no root node and no other signer.
C23_Step ==
    family'.last.op = "dispose"
    => /\ family'.nodes = family.nodes
       /\ \A g \in Holders : g # family'.last.h => family'.holders[g] = family.holders[g]

C23_DisposeLeavesFamily == []C23_State /\ [][C23_Step]_vars

\* A signer signs while a sibling derived from the same parent is disposed.
C23_Witness ==
    \E d, g \in Holders :
        /\ d # g
        /\ family.parent[d] = family.parent[g]
        /\ DisposedChild(d)
        /\ family.last.op = "sign" /\ family.last.h = g /\ family.last.err = "none"

\* ==================================== single calls on their arguments ==
\* Constructors, index and the sign/verify round trip depend on their
\* arguments alone.  family holds one call: its arguments and, once it has
\* run, its outcome.
Pending == [err |-> "pending", s |-> NoSigner, ret |-> "none"]

NewSeedCalls ==
    {[fn |-> "newSeed", seed |-> seed, root |-> root, path |-> path] :
        seed \in SeedInputs, root \in {NoRoot, 1}, path \in PathInputs}
NewLedgerCalls ==
    {[fn |-> "newLedger", path |-> path, dmk |-> dmk] :
        path \in PathInputs, dmk \in {Undefined, "DMK"}}
IndexCalls ==
    {[fn |-> "index", kind |-> kind, path |-> path] :
        kind \in {"seed", "ledger"}, path \in PathInputs}
VerifyCalls ==
    {[fn |-> "verify", signed |-> m, message |-> v, text |-> t] :
        m \in Messages, v \in Messages,
        t \in {"same", "upper", "junk after", "flipped", "cut"}}

\* The accounts toReadOnlyAccount is called on: the signer the account wraps,
\* before or after its first use, and the account's configuration.
LedgerSignerActive ==
    [LedgerSigner EXCEPT !.account = "D", !.address = OwnAddr, !.isActive = TRUE,
                         !.sessionId = 1]
AccountConfigs ==
    {c \in [rpc : BOOLEAN, transferMaxFee : {NoFee} \cup (0..MaxCeiling)] :
        c.rpc \/ c.transferMaxFee = NoFee}
ReadOnlyCalls ==
    {[fn |-> "toReadOnlyAccount", signer |-> s, config |-> c] :
        s \in {SeedSigner, SeedSignerActive, LedgerSigner, LedgerSignerActive},
        c \in AccountConfigs}

\* toReadOnlyAccount on an account with signer s and configuration config:
\* address = await this.getAddress(), then
\* new WalletAccountReadOnlySolana(address, this._config).  ret is the pair
\* handed to that constructor; s and config are the account afterwards.
ToReadOnlyAccount(s, config) ==
    IF AddressThrows(s)
    THEN [err |-> "LedgerNotConnected", s |-> s, config |-> config,
          ret |-> [address |-> Undefined, config |-> config]]
    ELSE [err |-> "none", s |-> s, config |-> config,
          ret |-> [address |-> AddressValue(s), config |-> config]]

\* The members of ISignerSolana and how each is used: a getter is read, a
\* method is called, an async method is called and awaited.
Getters == {"isActive", "index", "path", "config", "keyPair"}
Methods == {"derive", "dispose"}
AsyncMethods == {"getAddress", "sign", "verify", "signTransaction"}
MemberCalls ==
    {[fn |-> "member", file |-> f, member |-> m] :
        f \in {"signer-solana-interface.js", "seed-signer-solana.ts"},
        m \in Getters \cup Methods \cup AsyncMethods}

\* The names a module can refer to besides the globals: what it imports.
\* signer-solana-interface.js has no import statement at all;
\* seed-signer-solana.ts imports NotImplementedError from @tetherto/wdk-wallet.
ModuleScope(file) ==
    IF file = "seed-signer-solana.ts" THEN {"NotImplementedError"} ELSE {}

\* throw new <name>(...) in a module: the error of that name, or, when the
\* name is bound nowhere, the ReferenceError raised by evaluating it.
ThrowNew(name, file) == IF name \in ModuleScope(file) THEN name ELSE "ReferenceError"

\* Every member of ISignerSolana has the one statement
\* throw new NotImplementedError('<member>'); an async member rejects with
\* what it throws.
InterfaceMember(member, file) ==
    [err |-> ThrowNew("NotImplementedError", file), s |-> NoSigner, ret |-> "none",
     how |-> IF member \in AsyncMethods THEN "rejects" ELSE "throws"]

PureInit ==
    /\ signer = SeedSigner
    /\ heap = [b \in BufIds |-> "free"]
    /\ kp = NoBuf
    /\ connects = 0
    /\ cfg = [rpc |-> FALSE, transferMaxFee |-> NoFee]
    /\ hist = NoFamily.dev
    /\ call = [c \in Callers |-> IdleCall]
    /\ \E c \in NewSeedCalls \cup NewLedgerCalls \cup IndexCalls \cup VerifyCalls
                \cup ReadOnlyCalls \cup MemberCalls :
         family = [case |-> c, out |-> Pending]

\* The root nodes a single call sees: node 1, made from P1.
PureNodes == [n \in {1} |-> RootNode("P1")]

Ran(fn, out) ==
    /\ family.out.err = "pending"
    /\ family.case.fn = fn
    /\ family' = [family EXCEPT !.out = out]
    /\ UNCHANGED <<signer, heap, kp, connects, cfg, hist, call>>

\* new SeedSignerSolana(seed, {}, {root, path})
PureNewSeed ==
    Ran("newSeed", SeedNew(family.case.seed, BaseConfig,
                           [root |-> family.case.root, path |-> family.case.path], 2))

\* new LedgerSignerSol(path, {}, {dmk})
PureNewLedger == Ran("newLedger", LedgerConstruct(family.case.path, family.case.dmk))

\* new ...(path).index, for either kind of signer
PureIndex ==
    LET made == IF family.case.kind = "seed"
                THEN SeedNew("P1", BaseConfig, [root |-> NoRoot, path |-> family.case.path], 2)
                ELSE LedgerConstruct(family.case.path, "DMK")
    IN  Ran("index", IF made.err # "none" THEN made
                     ELSE [made EXCEPT !.ret = IF family.case.kind = "seed"
                                                THEN SeedIndex(made.s)
                                                ELSE LedgerIndex(made.s)])

\* The text a caller hands to verify in place of the signature `hex`:
\* itself, itself in upper case, itself followed by "zz", or the text of a
\* signature with a changed byte ("flipped") or cut short ("cut").
TextOf(hex, text) ==
    CASE text = "same" -> hex
      [] text \in {"upper", "junk after"} -> [hex EXCEPT !.text = text]
      [] OTHER -> ToHex([hex.of EXCEPT !.mark = text])

\* s = new SeedSignerSolana(P1).derive("0'/0'"); sig = await s.sign(signed)
PureChild ==
    SeedDerive(SeedNew("P1", BaseConfig, [root |-> NoRoot, path |-> <<>>], 1).s,
               <<"0'", "0'">>, [k |-> Undefined]).s
PureSigned(message) == SeedSign(PureChild, PureNodes, message)

\* await s.verify(message, text of sig)
PureSignVerify ==
    LET sig == PureSigned(family.case.signed)
    IN  Ran("verify", SeedVerify(sig.s, PureNodes, family.case.message,
                                 TextOf(sig.ret, family.case.text)))

\* await account.toReadOnlyAccount()
PureToReadOnly ==
    Ran("toReadOnlyAccount", ToReadOnlyAccount(family.case.signer, family.case.config))

\* new ISignerSolana().<member>, read, called or awaited
PureMember == Ran("member", InterfaceMember(family.case.member, family.case.file))

PureNext ==
    \/ PureNewSeed \/ PureNewLedger \/ PureIndex \/ PureSignVerify
    \/ PureToReadOnly \/ PureMember

PureSpec == PureInit /\ [][PureNext]_vars

\* The errors of the constructors, by the kind the messages stand for.
ConfigurationError ==
    {"Provide either a seed or a root, not both.", "Seed or root is required.",
     "Path is required."}
InvalidSeed == {"The seed phrase is invalid."}

\* A constructor call that has run with a path that is absent or hardened
\* throughout (the other paths are the subject of C25).
Constructed(fn) ==
    /\ family.case.fn = fn
    /\ family.out.err # "pending"
    /\ FullHardened(family.case.path)

\* What the hardware signer's constructor does with a path.
C24_Ledger ==
    Constructed("newLedger") =>
        /\ family.case.path = <<>> <=> family.out.err \in ConfigurationError
        /\ family.case.path # <<>> <=> family.out.err = "none"

C25_HardenedOnly ==
    (family.case.fn \in {"newSeed", "newLedger"} /\ family.out.err # "pending")
    => /\ (~FullHardened(family.case.path)
             /\ family.out.err \notin ConfigurationError \cup InvalidSeed)
          => family.out.err = "InvalidPath" /\ family.out.s = NoSigner
       /\ (family.out.err = "none" /\ family.out.s.path # NoPath)
          => FullHardened(RelPathOf(family.out.s.path))

\* C26 (as claimed): the index of a signer with a path is the number of the
\* segment right after the prefix, the first segment of the relative path
\* it was built with, for either kind of signer.
C26_AccountIndex ==
    (family.case.fn = "index" /\ family.out.err = "none" /\ family.out.s.path # NoPath)
    => family.out.ret = SegmentNumber(family.case.path, 1)

\* The error _connect keeps for a signer without a relative path.
RootSignerError == {"Not allowed to interact with the root node."}

\* C27 (as claimed): getAddress and sign on a root-level signer fail with
\* the error kept for root signers, on a derived child that has not been
\* disposed they succeed, and an account is refused exactly for a missing
\* signer and for a root-level signer.
C27_RootCannotSign ==
    /\ family.last.op \in {"getAddress", "sign"} =>
         LET s == family.holders[family.last.h]
         IN  /\ s.isRoot => family.last.err \in RootSignerError
             /\ (~s.isRoot /\ s.path # NoPath) => family.last.err = "none"
    /\ family.last.op = "account" =>
         (family.last.err # "none"
            <=> (family.last.h = 0 \/ family.holders[family.last.h].isRoot))

Keyed == {h \in Holders : family.holders[h].account # NoKey /\ family.holders[h].root # NoRoot}
SeedUnder(h) == family.nodes[family.holders[h].root].seed

ReadOnlyMade ==
    /\ family.case.fn = "toReadOnlyAccount"
    /\ family.out.err # "pending"
    /\ family.case.signer.address # Undefined

\* C30: toReadOnlyAccount on an account whose signer holds its derived
\* address returns a read-only account made with that address and with the
\* account's configuration less its transferMaxFee, and leaves the
\* account's signer and configuration as they were.
C30_ReadOnlySnapshot ==
    ReadOnlyMade =>
        /\ family.out.err = "none"
        /\ family.out.ret.address = family.case.signer.address
        /\ family.out.ret.config =
              [family.case.config EXCEPT !.transferMaxFee = NoFee]
        /\ family.out.s = family.case.signer
        /\ family.out.config = family.case.config

DeviceInit ==
    /\ signer = LedgerSigner
    /\ heap = [b \in BufIds |-> "free"]
    /\ kp = NoBuf
    /\ connects = 0
    /\ cfg = [rpc |-> FALSE, transferMaxFee |-> NoFee]
    /\ hist = NoFamily.dev
    /\ call = [c \in Callers |-> IdleCall]
    /\ family = NoFamily

\* signer.sign(message) / signer.signTransaction(unsignedTx)
DeviceCall(c) ==
    /\ At(c, {"idle"})
    /\ \E sop \in {"sign", "signTransaction"} :
         Apply(c, SignerGuard(Begin(c, "signer", sop)))

DeviceNext ==
    \E c \in Callers :
        \/ DeviceCall(c)
        \/ LedgerDeviceFound(c)
        \/ LedgerSessionOpen(c)
        \/ LedgerAddressReported(c)
        \/ ConnectReturn(c)
        \/ SignerResolved(c)
        \/ LedgerTxSigned(c)
        \/ DeviceFail(c)
        \/ Finish(c)

DeviceSpec == DeviceInit /\ [][DeviceNext]_vars

\* A call that has handed its request to the device signer
\* (this._account.signMessage / signTransaction) and awaits its terminal event.
AtDevice(c) == At(c, {"devSign", "devSignTx"})

\* C32: on one hardware signer, no two calls have a sign or signTransaction
\* request at the device at once: a second request is handed over only after
\* the first has ended.
C32_OneRequestAtATime ==
    \A c, d \in Callers : (c # d /\ AtDevice(c)) => ~AtDevice(d)

\* ------------------------------------------- the order of sendTransaction
\* The steps of a sendTransaction call, in the states it passes through: a
\* structured message is bound before the fee is computed, the fee is
\* computed before the signer is asked, the signer has returned before the
\* broadcast, and a call that failed before the broadcast has sent nothing.
SendOrder ==
    obs.op = "sendTransaction" =>
        /\ (obs.fee # NoFee /\ obs.declared.instr) => obs.msg.lifetime # "none"
        /\ obs.signed => obs.fee # NoFee
        /\ obs.sent => obs.signed /\ obs.pc \in {"sSend", "done"}
        /\ (obs.pc = "done" /\ obs.result = "ok") => obs.sent
        /\ obs.pc = "done" => obs.result # "none"

\* One broadcast per call: once the signed transaction is handed to
\* rpc.sendTransaction the call only ends; and a call that ends with an
\* error raised before the broadcast has broadcast nothing.
SendOnce ==
    (obs.op = "sendTransaction" /\ obs'.op = "sendTransaction")
        => /\ obs.sent => obs'.sent /\ obs'.pc \in {"sSend", "done"}
           /\ (~obs.sent /\ obs'.pc = "done") => ~obs'.sent /\ obs'.result # "ok"

\* C33: sendTransaction binds, computes the fee, signs and broadcasts in
\* that order; it broadcasts at most once, only after the signer has
\* returned, and what it hands to rpc.sendTransaction is the base64 text of
\* the bytes the signer returned; a failure before the broadcast reaches the
\* caller and nothing is broadcast.
C33_PipelineOrder ==
    /\ [](SendOrder /\ (obs.op = "sendTransaction" /\ obs.sent => obs.wire = "base64"))
    /\ [][SendOnce]_vars

\* The order and the single broadcast alone, whatever text is handed to the
\* RPC collaborator.
SendPipelineOrdered == []SendOrder /\ [][SendOnce]_vars

\* ------------------------------------------------------ verify is passive
\* The step in which a verify call is made, on the account or on the signer
\* itself: it leaves the signer's fields, the buffers, the sessions and the
\* number of derivations / discoveries started as they were, and starts no
\* connect; on a hardware signer without an address it has answered false.
C34_Step ==
    (obs.pc = "idle" /\ obs'.sop = "verify")
        => /\ signer' = signer /\ heap' = heap /\ hist' = hist
           /\ connects' = connects /\ ~obs'.conn
           /\ (signer.kind = "ledger" /\ signer.address = Undefined)
                => obs'.pc = "done" /\ obs'.result = "ok" /\ obs'.ret = "false"

\* C34: verify never changes signer state: on a signer of either kind that
\* is not active it starts no key derivation and no device connect and
\* leaves isActive, the key material and the session as they were; the
\* hardware signer without an address answers false.
C34_VerifyIsPassive == [][C34_Step]_vars

\* -------------------------------------------- the default implementation
\* C35: every member of ISignerSolana in signer-solana-interface.js, used on
\* the base implementation, fails with a NotImplementedError and returns no
\* value.
C35_NotImplemented ==
    (family.case.fn = "member" /\ family.case.file = "signer-solana-interface.js"
        /\ family.out.err # "pending")
        => family.out.err = "NotImplementedError" /\ family.out.ret = "none"

\* ------------------------------------- dispose during an activation
\* Once a dispose() has returned on a seed or hardware signer, the signer
\* is not active and holds no key pair / device signer, and a seed signer
\* holds no address.
DisposedStaysDown ==
    (signer.kind \in Lazy /\ hist.disposed)
        => /\ ~signer.isActive
           /\ signer.account = Undefined
           /\ signer.kind = "seed" => signer.address = Undefined

\* After a dispose() has returned, no step stores key material or opens a
\* device session.
DisposedGainsNothing ==
    (signer.kind \in Lazy /\ hist.disposed)
        => /\ signer'.rawPrivateKey = signer.rawPrivateKey
           /\ signer'.rawPublicKey = signer.rawPublicKey
           /\ hist'.sessions \subseteq hist.sessions

\* C36: dispose wins over a _connect suspended at an await: once dispose
\* has returned the signer never becomes active again, never holds key
\* material or an address again, and the connect leaves no session open.
C36_DisposeWins == []DisposedStaysDown /\ [][DisposedGainsNothing]_vars

\* ------------------------------------ the hardware signer's address
\* C37: on a hardware signer that was never disposed, a getAddress that
\* resolves resolves to the address the device reported, no signTransaction
\* fails for want of an address to attach its signature under, and no sign
\* or signTransaction request is at the device while the signer has no
\* address.
C37_AddressFromDevice ==
    (signer.kind = "ledger" /\ ~hist.disposed /\ ~hist.threw /\ obs.op = "signer")
        => /\ (obs.sop = "getAddress" /\ obs.pc = "done" /\ obs.result = "ok")
                => obs.ret = OwnAddr
           /\ obs.result # "InvalidAddress"
           /\ obs.pc \in {"devSign", "devSignTx"} => signer.address # Undefined

\* ------------------------------------------ dispose of a seed signer
\* The signer a dispose() was just called on is cleared: no root, no key
\* pair, no address, no path, not active.
Cleared(s) ==
    /\ s.root = NoRoot /\ s.account = NoKey /\ s.address = NoAddr
    /\ s.path = NoPath /\ ~s.isActive

\* C38: dispose() of a seed signer, whatever state the signer is in (never
\* used, a root signer, active, disposed before), completes without an
\* error and leaves the signer cleared.
C38_DisposeTotal ==
    family.last.op = "dispose"
        => family.last.err = "none" /\ Cleared(family.holders[family.last.h])

\* The same for the signers that hold a raw private key, which are the
\* active ones and those disposed after they were active.
DisposeOfKeyed ==
    (family.last.op = "dispose" /\ family.holders[family.last.h].rawPrivateKey # NoKey)
        => family.last.err = "none" /\ Cleared(family.holders[family.last.h])

\* ------------------------------------------ the fee a transfer pays
\* C39: a transfer that succeeded under a configured transferMaxFee has
\* both fees strictly below the ceiling: the one it quoted, checked and
\* returns, and the one sendTransaction computed for the message it signed
\* and broadcast.
C39_PaidFeeBelowCeiling ==
    (obs.op = "transfer" /\ obs.result = "ok" /\ cfg.transferMaxFee # NoFee)
        => obs.tfee < cfg.transferMaxFee /\ obs.fee < cfg.transferMaxFee

\* The fee a successful transfer returns is below the ceiling.
ReturnedFeeBelowCeiling ==
    (obs.op = "transfer" /\ obs.result = "ok" /\ cfg.transferMaxFee # NoFee)
        => obs.tfee < cfg.transferMaxFee

====
